---- MODULE Spec2Model ----
(***************************************************************************)
(* A model of the two automation scripts of the repository:                *)
(*                                                                         *)
(*   scripts/set_github_policies.py   the Policy Setter   (SpecPolicy)     *)
(*   scripts/update_readme_stats.py   the Stats Updater   (SpecUpdater)    *)
(*   update_readme of the latter as a function on texts   (SpecReadme)     *)
(*                                                                         *)
(* The GitHub API is an external service: a request either fails (any      *)
(* non-2xx status, or a GraphQL body with an "errors" member) or succeeds  *)
(* with a response drawn from a bounded set.                               *)
(***************************************************************************)
EXTENDS Integers, Sequences, FiniteSets, TLC

VARIABLES
    \* ---- Policy Setter -------------------------------------------------
    repos,                \* the account on GitHub: a sequence of repositories
    ppc,                  \* position of the script
    repositories,         \* set_github_policies.py:105
    forked_repositories,  \* set_github_policies.py:112
    idx,                  \* position of the running for loop
    requests,             \* the requests this run has issued, each with its outcome
    warnings,             \* the names set_fork_name skipped with a warning
    run,                  \* number of invocations of the script so far
    runStart,             \* the account when this invocation began
    first,                \* the account before the first invocation
    completed,            \* an earlier invocation ran to its end
    \* ---- Stats Updater -------------------------------------------------
    upc,                  \* position of the script
    fetched,              \* the names __main__ has bound so far
    stars, commits, pull_requests, issues, notable,   \* update_readme_stats.py:266-278
    total, cursor,        \* locals of the running fetch function
    year,                 \* loop variable of fetch_commits
    pages,                \* iterations begun by the loop of fetch_notable_contributions
    contributions, seen_repos,                        \* update_readme_stats.py:157-158
    calls,                \* the graphql calls of the running fetch function
    fetchFailed,          \* some graphql call of this run got a failure
    service,              \* what the GraphQL service may answer to each query
    file,                 \* the text of README.md
    file0,                \* the text of README.md before the run
    before,               \* the text of README.md before the last update_readme
    writes,               \* number of write_text calls
    patches,              \* the fragment triples update_readme was called with
    raised                \* the last update_readme call raised

policyVars == <<repos, ppc, repositories, forked_repositories, idx, requests,
                warnings, run, runStart, first, completed>>

updaterVars == <<upc, fetched, stars, commits, pull_requests, issues, notable,
                 total, cursor, year, pages, contributions, seen_repos, calls,
                 fetchFailed, service>>

readmeVars == <<file, file0, before, writes, patches, raised>>

vars == <<policyVars, updaterVars, readmeVars>>

(***************************************************************************)
(* Bounds of the model.                                                    *)
(***************************************************************************)
MaxRepos == 2
MaxRuns == 2

(***************************************************************************)
(* Texts are sequences of characters, so that startswith and the f-string  *)
(* of set_fork_name are computed on the characters.                        *)
(***************************************************************************)
Prefix == <<"f", "o", "r", "k", "-">>

StartsWith(s, p) == Len(s) >= Len(p) /\ SubSeq(s, 1, Len(p)) = p

RepoNames ==
    { <<"x">>, Prefix \o <<"x">>, <<"f", "o", "r", "k", "x">> }

\* The settings of a repository that the script never reads but PATCHes.
DefaultSettings ==
    [has_wiki |-> TRUE, has_projects |-> TRUE, has_discussions |-> FALSE,
     allow_merge_commit |-> TRUE, allow_squash_merge |-> TRUE,
     allow_rebase_merge |-> TRUE]

CustomSettings ==
    [has_wiki |-> FALSE, has_projects |-> TRUE, has_discussions |-> TRUE,
     allow_merge_commit |-> FALSE, allow_squash_merge |-> TRUE,
     allow_rebase_merge |-> FALSE]

Repo(n, f, a, s) == [name |-> n, fork |-> f, archived |-> a, settings |-> s]

RepoSet ==
    { Repo(n, f, a, s) : n \in RepoNames, f \in BOOLEAN, a \in BOOLEAN,
                         s \in {DefaultSettings, CustomSettings} }

SeqsUpTo(S, n) == UNION { [1..k -> S] : k \in 0..n }

Accounts ==
    { rs \in SeqsUpTo(RepoSet, MaxRepos) :
        \A i, j \in DOMAIN rs : i # j => rs[i].name # rs[j].name }

(***************************************************************************)
(* The server side of PATCH /repos/{owner}/{repo}.                         *)
(***************************************************************************)
HasRepo(rs, n) == \E i \in DOMAIN rs : rs[i].name = n

IndexOf(rs, n) == CHOOSE i \in DOMAIN rs : rs[i].name = n

\* A body is a function from some of the fields of a repository to values.
ApplyBody(r, body) ==
    [name     |-> IF "name" \in DOMAIN body THEN body["name"] ELSE r.name,
     fork     |-> r.fork,
     archived |-> r.archived,
     settings |-> [k \in DOMAIN r.settings |->
                     IF k \in DOMAIN body THEN body[k] ELSE r.settings[k]]]

\* 404 for an unknown repository, 422 for a name that is taken.
Rejected(rs, n, body) ==
    \/ ~HasRepo(rs, n)
    \/ "name" \in DOMAIN body /\ body["name"] # n /\ HasRepo(rs, body["name"])

Patched(rs, n, body) ==
    [rs EXCEPT ![IndexOf(rs, n)] = ApplyBody(rs[IndexOf(rs, n)], body)]

(***************************************************************************)
(* set_github_policies.py                                                  *)
(***************************************************************************)
Request(method, repository, body, ok) ==
    [method |-> method, repository |-> repository, body |-> body, ok |-> ok]

\* response.raise_for_status(): the exception ends the script.
RaiseForStatus(ok, next) == IF ok THEN next ELSE "aborted"

\* lines 28-32
ListedKeepArchived(rs) ==
    LET kept == SelectSeq(rs, LAMBDA r : ~r.fork)
    IN  [i \in DOMAIN kept |-> kept[i].name]
Listed(rs) ==
    LET kept == SelectSeq(rs, LAMBDA r : ~r.fork /\ ~r.archived)
    IN  [i \in DOMAIN kept |-> kept[i].name]

\* line 39
ListedForks(rs) ==
    LET kept == SelectSeq(rs, LAMBDA r : r.fork)
    IN  [i \in DOMAIN kept |-> kept[i].name]

\* Where the script goes after the unit of work at idx of a loop over list.
AfterLoop(list, i, again, out) == IF i + 1 <= Len(list) THEN again ELSE out

\* The Policy Setter touches nothing of the Stats Updater.
OnlyPolicy == UNCHANGED <<updaterVars, readmeVars>>

list_repositories ==
    /\ OnlyPolicy
    /\ ppc = "list_repositories"
    /\ \E ok \in BOOLEAN :
          /\ requests' = Append(requests, Request("GET", <<>>, <<>>, ok))
          /\ repositories' = IF ok THEN Listed(repos) ELSE repositories
          /\ ppc' = RaiseForStatus(ok,
                      IF Listed(repos) # <<>> THEN "set_policy_disable_wiki"
                                               ELSE "list_forked_repositories")
    /\ idx' = 1
    /\ UNCHANGED <<repos, forked_repositories, warnings, run, runStart, first,
                   completed>>

\* One settings PATCH of repositories[idx] (lines 42-83).
SetPolicy(here, body, next) ==
    /\ OnlyPolicy
    /\ ppc = here
    /\ \E ok \in BOOLEAN :
          LET repository == repositories[idx]
              good == ok /\ ~Rejected(repos, repository, body)
          IN  /\ requests' = Append(requests, Request("PATCH", repository, body, good))
              /\ repos' = IF good THEN Patched(repos, repository, body) ELSE repos
              /\ ppc' = RaiseForStatus(good, next)
    /\ UNCHANGED <<repositories, forked_repositories, idx, warnings, run,
                   runStart, first, completed>>

WikiBody == [f \in {"has_wiki"} |-> FALSE]
ProjectsBody == [f \in {"has_projects"} |-> FALSE]
DiscussionsBody == [f \in {"has_discussions"} |-> FALSE]
RebaseBody ==
    [f \in {"allow_merge_commit", "allow_squash_merge", "allow_rebase_merge"} |->
        f = "allow_rebase_merge"]

set_policy_disable_wiki_unchecked ==
    /\ OnlyPolicy
    /\ ppc = "set_policy_disable_wiki"
    /\ \E ok \in BOOLEAN :
          LET repository == repositories[idx]
              good == ok /\ ~Rejected(repos, repository, WikiBody)
          IN  /\ requests' = Append(requests,
                                Request("PATCH", repository, WikiBody, good))
              /\ repos' = IF good THEN Patched(repos, repository, WikiBody)
                                  ELSE repos
              /\ ppc' = "set_policy_disable_projects"
    /\ UNCHANGED <<repositories, forked_repositories, idx, warnings, run,
                   runStart, first, completed>>

set_policy_disable_wiki ==
    SetPolicy("set_policy_disable_wiki", WikiBody, "set_policy_disable_projects")

set_policy_disable_projects ==
    SetPolicy("set_policy_disable_projects", ProjectsBody,
              "set_policy_disable_discussions")

set_policy_disable_discussions ==
    SetPolicy("set_policy_disable_discussions", DiscussionsBody,
              "set_policy_rebase_only")

\* The last call of the loop body (line 110): the loop goes on or ends.
set_policy_rebase_only ==
    /\ OnlyPolicy
    /\ ppc = "set_policy_rebase_only"
    /\ \E ok \in BOOLEAN :
          LET repository == repositories[idx]
              good == ok /\ ~Rejected(repos, repository, RebaseBody)
          IN  /\ requests' = Append(requests,
                                Request("PATCH", repository, RebaseBody, good))
              /\ repos' = IF good THEN Patched(repos, repository, RebaseBody)
                                  ELSE repos
              /\ ppc' = RaiseForStatus(good,
                          AfterLoop(repositories, idx, "set_policy_disable_wiki",
                                    "list_forked_repositories"))
              /\ idx' = IF good THEN idx + 1 ELSE idx
    /\ UNCHANGED <<repositories, forked_repositories, warnings, run, runStart,
                   first, completed>>

list_forked_repositories ==
    /\ OnlyPolicy
    /\ ppc = "list_forked_repositories"
    /\ \E ok \in BOOLEAN :
          /\ requests' = Append(requests, Request("GET", <<>>, <<>>, ok))
          /\ forked_repositories' = IF ok THEN ListedForks(repos)
                                          ELSE forked_repositories
          /\ ppc' = RaiseForStatus(ok,
                      IF ListedForks(repos) # <<>> THEN "set_fork_name" ELSE "done")
    /\ idx' = 1
    /\ UNCHANGED <<repos, repositories, warnings, run, runStart, first, completed>>

\* line 97: the match on repository.startswith("fork-")
AlwaysRename(repository) == FALSE
HasPrefix(repository) == StartsWith(repository, Prefix)

\* line 101: f"fork-{repository}"
ForkNameNoDash(repository) == <<"f", "o", "r", "k">> \o repository
ForkName(repository) == Prefix \o repository

set_fork_name ==
    /\ OnlyPolicy
    /\ ppc = "set_fork_name"
    /\ LET repository == forked_repositories[idx]
           next == AfterLoop(forked_repositories, idx, "set_fork_name", "done")
       IN  IF HasPrefix(repository)
           THEN /\ warnings' = Append(warnings, repository)
                /\ ppc' = next
                /\ idx' = idx + 1
                /\ UNCHANGED <<repos, requests>>
           ELSE \E ok \in BOOLEAN :
                  LET body == [f \in {"name"} |-> ForkName(repository)]
                      good == ok /\ ~Rejected(repos, repository, body)
                  IN  /\ requests' = Append(requests,
                                        Request("PATCH", repository, body, good))
                      /\ repos' = IF good THEN Patched(repos, repository, body)
                                          ELSE repos
                      /\ ppc' = RaiseForStatus(good, next)
                      /\ idx' = IF good THEN idx + 1 ELSE idx
                      /\ UNCHANGED warnings
    /\ UNCHANGED <<repositories, forked_repositories, run, runStart, first,
                   completed>>

\* The script is run again, after it ended or aborted.
Rerun ==
    /\ OnlyPolicy
    /\ ppc \in {"done", "aborted"}
    /\ run < MaxRuns
    /\ run' = run + 1
    /\ runStart' = repos
    /\ ppc' = "list_repositories"
    /\ repositories' = <<>>
    /\ forked_repositories' = <<>>
    /\ idx' = 1
    /\ requests' = <<>>
    /\ warnings' = <<>>
    /\ completed' = (completed \/ ppc = "done")
    /\ UNCHANGED <<repos, first>>

\* The state of a Stats Updater that is not run.
UpdaterIdle ==
    /\ upc = "idle"
    /\ fetched = {}
    /\ stars = 0 /\ commits = 0 /\ pull_requests = 0 /\ issues = 0
    /\ notable = <<>>
    /\ total = 0 /\ cursor = "null" /\ year = 0 /\ pages = 0
    /\ contributions = <<>> /\ seen_repos = {}
    /\ calls = <<>>
    /\ fetchFailed = FALSE
    /\ service = [stars |-> {}, years |-> {}, commits |-> {}, activity |-> {},
                  pullRequests |-> {}]
    /\ file = <<>> /\ file0 = <<>> /\ before = <<>> /\ writes = 0
    /\ patches = <<>> /\ raised = FALSE

InitPolicy ==
    /\ repos \in Accounts
    /\ ppc = "list_repositories"
    /\ repositories = <<>>
    /\ forked_repositories = <<>>
    /\ idx = 1
    /\ requests = <<>>
    /\ warnings = <<>>
    /\ run = 1
    /\ runStart = repos
    /\ first = repos
    /\ completed = FALSE
    /\ UpdaterIdle

NextPolicy ==
    \/ list_repositories
    \/ set_policy_disable_wiki
    \/ set_policy_disable_projects
    \/ set_policy_disable_discussions
    \/ set_policy_rebase_only
    \/ list_forked_repositories
    \/ set_fork_name
    \/ Rerun

SpecPolicy == InitPolicy /\ [][NextPolicy]_vars

(***************************************************************************)
(* Properties of the Policy Setter.                                        *)
(***************************************************************************)
IsRename(q) == q.method = "PATCH" /\ "name" \in DOMAIN q.body
IsSettings(q) == q.method = "PATCH" /\ "name" \notin DOMAIN q.body

Renames(log) == SelectSeq(log, IsRename)

\* The rename requests a complete pass over the forks of account rs issues.
ExpectedRenames(rs) ==
    LET lacking == SelectSeq(rs, LAMBDA r : r.fork /\ ~StartsWith(r.name, Prefix))
    IN  [i \in DOMAIN lacking |->
            Request("PATCH", lacking[i].name,
                    [f \in {"name"} |-> Prefix \o lacking[i].name], TRUE)]

\* C5: a fork whose name starts with fork- triggers no rename call and no
\* error, a fork named x triggers exactly one rename call, to fork-x; a run
\* that ends has issued one rename call per listed fork lacking the prefix.
C5_ForkRename ==
    /\ \A i \in DOMAIN requests :
          IsRename(requests[i]) =>
            /\ ~StartsWith(requests[i].repository, Prefix)
            /\ requests[i].body["name"] = Prefix \o requests[i].repository
    /\ \A i \in DOMAIN warnings : StartsWith(warnings[i], Prefix)
    /\ ppc = "done" =>
          /\ Renames(requests) = ExpectedRenames(runStart)
          /\ Len(Renames(requests)) + Len(warnings)
                = Cardinality({i \in DOMAIN runStart : runStart[i].fork})

C5_Witness ==
    /\ ppc = "done"
    /\ Renames(requests) # <<>>
    /\ warnings # <<>>

RECURSIVE Replay(_, _)
\* The account after the successful PATCH requests of log, applied to rs.
Replay(rs, log) ==
    IF log = <<>> THEN rs
    ELSE LET q == Head(log)
         IN  Replay(IF q.method = "PATCH" /\ q.ok
                       THEN Patched(rs, q.repository, q.body) ELSE rs,
                    Tail(log))

\* C6: the first failed request is the last request of the run (nothing is
\* issued after it, it is not retried), the run is aborted exactly then, and
\* what earlier requests applied stays applied.
C6_AbortOnFailure ==
    /\ \A i \in DOMAIN requests : i < Len(requests) => requests[i].ok
    /\ ppc = "aborted" <=> (requests # <<>> /\ ~requests[Len(requests)].ok)
    /\ repos = Replay(runStart, requests)

C6_Witness ==
    /\ ppc = "aborted"
    /\ Len(requests) >= 3
    /\ repos # runStart

RequestsTo(log, n) == SelectSeq(log, LAMBDA q : q.repository = n)

Bodies(log) == [i \in DOMAIN log |-> log[i].body]

\* C8: in a run where every request succeeded, a repository that is neither
\* a fork nor archived received the four settings updates, a fork or an
\* archived repository received none, and a fork received renames only.
C8_PolicyTargets ==
    ppc = "done" =>
      \A i \in DOMAIN runStart :
        LET r == runStart[i]
            to == RequestsTo(requests, r.name)
        IN  /\ (~r.fork /\ ~r.archived) =>
                  Bodies(to) = <<WikiBody, ProjectsBody, DiscussionsBody, RebaseBody>>
            /\ (r.fork \/ r.archived) => \A k \in DOMAIN to : ~IsSettings(to[k])
            /\ r.fork => \A k \in DOMAIN to : IsRename(to[k])

C8_Witness ==
    /\ ppc = "done"
    /\ \E i, j \in DOMAIN runStart :
          /\ ~runStart[i].fork /\ ~runStart[i].archived
          /\ ~runStart[j].fork /\ runStart[j].archived

\* The account a complete successful run leaves, stated from the policy.
Compliant(s) ==
    [has_wiki |-> FALSE, has_projects |-> FALSE, has_discussions |-> FALSE,
     allow_merge_commit |-> FALSE, allow_squash_merge |-> FALSE,
     allow_rebase_merge |-> TRUE]

Target(rs) ==
    [i \in DOMAIN rs |->
        IF rs[i].fork
        THEN [rs[i] EXCEPT !.name = IF StartsWith(@, Prefix) THEN @ ELSE Prefix \o @]
        ELSE IF rs[i].archived THEN rs[i]
        ELSE [rs[i] EXCEPT !.settings = Compliant(@)]]

C9_WitnessAborted ==
    /\ run > 1
    /\ ~completed
    /\ ppc = "done"
    /\ runStart # first
    /\ runStart # repos

(***************************************************************************)
(* update_readme_stats.py: texts.                                          *)
(*                                                                         *)
(* A text is a sequence of tokens: a marker comment, a newline, a          *)
(* backslash, or a run of other characters.  No marker comment overlaps    *)
(* another one or itself, so a text has one such reading, and a marker     *)
(* token stands where the regular expression finds the literal comment.    *)
(***************************************************************************)
STATS_START == "<!-- STATS:START -->"
STATS_END == "<!-- STATS:END -->"
NOTABLE_START == "<!-- NOTABLE:START -->"
NOTABLE_END == "<!-- NOTABLE:END -->"
UPDATED_START == "<!-- UPDATED:START -->"
UPDATED_END == "<!-- UPDATED:END -->"

Regions ==
    << [start |-> STATS_START, end |-> STATS_END],
       [start |-> NOTABLE_START, end |-> NOTABLE_END],
       [start |-> UPDATED_START, end |-> UPDATED_END] >>

Markers == { Regions[i].start : i \in 1..3 } \cup { Regions[i].end : i \in 1..3 }

NL == "\n"
BS == "\\"

\* A backslash in a replacement template (re's parse_template) and the
\* character after it: an escape the template knows stands for one
\* character (the control characters are written by their code points); any
\* other ASCII letter is a bad escape; a digit 1-9 is a reference to a group
\* the patterns do not have, and 0 the NUL character (the digit is the last
\* one: no fragment here writes an octal escape); anything else stays, with
\* its backslash.
Unescaped(c) ==
    CASE c = BS  -> BS
      [] c = "n" -> NL
      [] c = "t" -> "\t"
      [] c = "r" -> "\r"
      [] c = "f" -> "\f"
      [] c = "a" -> "U+0007"
      [] c = "b" -> "U+0008"
      [] c = "v" -> "U+000B"
      [] c = "0" -> "U+0000"

TemplateEscapes == { BS, "n", "t", "r", "f", "a", "b", "v", "0" }

AsciiLetters ==
    { "a", "b", "c", "d", "e", "f", "g", "h", "i", "j", "k", "l", "m", "n", "o",
      "p", "q", "r", "s", "t", "u", "v", "w", "x", "y", "z",
      "A", "B", "C", "D", "E", "F", "G", "H", "I", "J", "K", "L", "M", "N", "O",
      "P", "Q", "R", "S", "T", "U", "V", "W", "X", "Y", "Z" }

BadEscapes ==
    (AsciiLetters \cup { "1", "2", "3", "4", "5", "6", "7", "8", "9" })
        \ TemplateEscapes

RECURSIVE ExpandTemplate(_)
\* The text a replacement template stands for, or the error re.sub raises.
ExpandTemplate(t) ==
    IF t = <<>> THEN [ok |-> TRUE, text |-> <<>>]
    ELSE IF Head(t) # BS
    THEN LET rest == ExpandTemplate(Tail(t))
         IN  [ok |-> rest.ok, text |-> <<Head(t)>> \o rest.text]
    ELSE IF Len(t) = 1 \/ t[2] \in BadEscapes
    THEN [ok |-> FALSE, text |-> <<>>]
    ELSE LET rest == ExpandTemplate(SubSeq(t, 3, Len(t)))
         IN  [ok |-> rest.ok,
              text |-> (IF t[2] \in TemplateEscapes THEN <<Unescaped(t[2])>>
                                                   ELSE <<BS, t[2]>>) \o rest.text]

\* f"<!-- X:START -->\n{md}\n<!-- X:END -->"
Wrapped(region, md) == <<region.start, NL>> \o md \o <<NL, region.end>>

First(text, tok, from) ==
    IF \E i \in from..Len(text) : text[i] = tok
    THEN CHOOSE i \in from..Len(text) :
            text[i] = tok /\ \A j \in from..(i - 1) : text[j] # tok
    ELSE 0

RECURSIVE SubAll(_, _, _)
\* re.sub(r"START.*?END", repl, text, flags=re.DOTALL): every leftmost
\* shortest span from a START to the next END becomes repl.
SubAll(text, region, repl) ==
    LET a == First(text, region.start, 1)
        b == IF a = 0 THEN 0 ELSE First(text, region.end, a + 1)
    IN  IF b = 0 THEN text
        ELSE SubSeq(text, 1, a - 1) \o repl
                \o SubAll(SubSeq(text, b + 1, Len(text)), region, repl)

\* One re.sub call of update_readme (lines 239-244, 245-250, 251-256).
ReSub(text, region, md) ==
    LET repl == ExpandTemplate(Wrapped(region, md))
    IN  IF repl.ok THEN [ok |-> TRUE, text |-> SubAll(text, region, repl.text)]
                   ELSE [ok |-> FALSE, text |-> text]

\* update_readme (lines 235-258) on the text read: the text to write, or
\* the error of the first re.sub that raises.
update_readme(content, stats_md, notable_md, updated_md) ==
    LET c1 == ReSub(content, Regions[1], stats_md)
        c2 == IF c1.ok THEN ReSub(c1.text, Regions[2], notable_md) ELSE c1
        c3 == IF c2.ok THEN ReSub(c2.text, Regions[3], updated_md) ELSE c2
    IN  c3

(***************************************************************************)
(* update_readme_stats.py: formatting and rendering.                       *)
(***************************************************************************)
NOTABLE_LIMIT == 10
NOTABLE_MIN_STARS == 100
NOTABLE_MAX_PAGES == 5
MILLION == 1000000
THOUSAND == 1000

\* f"{n / unit:.1f}": the quotient to one decimal, rounded to the nearest.
\* On a tie Python rounds the binary double nearest to n / unit, which is
\* the tie itself only for multiples of a quarter (then to the even digit);
\* the counts drawn below are no ties.
OneDecimal(n, unit) ==
    LET twice == (20 * n) \div unit
        down == (10 * n) \div unit
        tie == (20 * n) % unit = 0 /\ twice % 2 = 1
        tenths == IF tie THEN (IF down % 2 = 0 THEN down ELSE down + 1)
                  ELSE IF twice % 2 = 1 THEN down + 1 ELSE down
    IN  ToString(tenths \div 10) \o "." \o ToString(tenths % 10)

\* lines 195-202
fmt(n) ==
    IF n >= MILLION THEN OneDecimal(n, MILLION) \o "M"
    ELSE IF n >= THOUSAND THEN OneDecimal(n, THOUSAND) \o "k"
    ELSE ToString(n)

RECURSIVE JoinLines(_)
\* "\n".join(lines); an empty line leaves no token between its newlines.
JoinLines(lines) ==
    IF lines = <<>> THEN <<>>
    ELSE (IF Head(lines) = "" THEN <<>> ELSE <<Head(lines)>>)
            \o (IF Len(lines) > 1 THEN <<NL>> \o JoinLines(Tail(lines)) ELSE <<>>)

\* lines 205-214; the emoji are written by their code points.
render_stats(s) ==
    JoinLines(<< "## Stats", "",
                 "- U+2B50 Stars: **" \o fmt(s.stars) \o "**",
                 "- U+1F4BB Commits: **" \o fmt(s.commits) \o "**",
                 "- U+1F500 Pull Requests: **" \o fmt(s.pull_requests) \o "**",
                 "- U+1F41B Issues: **" \o fmt(s.issues) \o "**" >>)

\* lines 217-227
render_notable(cs) ==
    IF cs = <<>>
    THEN JoinLines(<<"## Notable Contributions", "", "*No notable contributions found.*">>)
    ELSE JoinLines(<<"## Notable Contributions", "">>
            \o [i \in DOMAIN cs |->
                  "- [" \o cs[i].repo \o "](" \o cs[i].repo_url \o ") U+2B50 "
                     \o fmt(cs[i].stars)])

\* The clock of the run: now(UTC).year and strftime("%Y-%m-%d").
Clock == [year |-> 2026, date |-> "2026-11-05"]

\* lines 230-232
render_updated == << "*Updated: " \o Clock.date \o "*" >>

(***************************************************************************)
(* update_readme_stats.py: the notable contributions.                      *)
(***************************************************************************)
\* str.lower() on the characters of a login.
LowerChar(c) == IF c = "M" THEN "m" ELSE IF c = "E" THEN "e" ELSE c
Lower(login) == [i \in DOMAIN login |-> LowerChar(login[i])]

\* GITHUB_REPOSITORY_OWNER
username == <<"M", "e">>

\* line 167
SelfOwned(repo) == Lower(repo.owner) = Lower(username)

\* line 170
BelowOrAtThreshold(repo) == repo.stargazerCount <= NOTABLE_MIN_STARS
BelowThreshold(repo) == repo.stargazerCount < NOTABLE_MIN_STARS

\* lines 178-184
Contribution(repo) ==
    [repo |-> repo.nameWithOwner, repo_url |-> repo.url,
     stars |-> repo.stargazerCount]

RECURSIVE Scan(_, _)
\* The loop over the nodes of one page (lines 165-184).
Scan(nodes, acc) ==
    IF nodes = <<>> THEN acc
    ELSE LET repo == Head(nodes)
         IN  IF \/ SelfOwned(repo)
                \/ BelowThreshold(repo)
                \/ repo.nameWithOwner \in acc.seen_repos
             THEN Scan(Tail(nodes), acc)
             ELSE Scan(Tail(nodes),
                    [contributions |-> Append(acc.contributions, Contribution(repo)),
                     seen_repos |-> acc.seen_repos \cup {repo.nameWithOwner}])

\* c goes after the entries with at least its stars: the sort is stable.
InsertDesc(sorted, c) ==
    LET k == Cardinality({i \in DOMAIN sorted : sorted[i].stars >= c.stars})
    IN  SubSeq(sorted, 1, k) \o <<c>> \o SubSeq(sorted, k + 1, Len(sorted))

RECURSIVE SortFrom(_, _)
SortFrom(sorted, cs) ==
    IF cs = <<>> THEN sorted ELSE SortFrom(InsertDesc(sorted, Head(cs)), Tail(cs))

\* line 191: contributions.sort(key=stars, reverse=True)
SortDesc(cs) == SortFrom(<<>>, cs)

\* line 192: contributions[:NOTABLE_LIMIT]
TopN(cs) == SubSeq(cs, 1, IF Len(cs) < NOTABLE_LIMIT THEN Len(cs) ELSE NOTABLE_LIMIT)

\* lines 161 and 186-187: the loop runs again after its n-th page.
MorePagesUnbounded(n, hasNextPage) == hasNextPage
MorePages(n, hasNextPage) == hasNextPage /\ n < NOTABLE_MAX_PAGES

(***************************************************************************)
(* The GraphQL service: what a call may answer.                            *)
(***************************************************************************)
MaxStarPages == 3
MaxAccountAge == 1

Outcomes == { "ok", "http_error", "errors" }

\* graphql (lines 43-51): raise_for_status, then the "errors" member.
RaisesOnStatusOnly(outcome) == outcome = "http_error"
Raises(outcome) == outcome # "ok"

StarPages ==
    { [nodes |-> ns, endCursor |-> c] :
        ns \in { <<10, 20>>, <<5>>, <<>> }, c \in { "Y1", "Y2" } }

AccountYears == (Clock.year - MaxAccountAge) .. Clock.year

YearCounts ==
    { [totalCommitContributions |-> 0, restrictedContributionsCount |-> 0],
      [totalCommitContributions |-> 700, restrictedContributionsCount |-> 60] }

ActivityCounts ==
    { [pullRequests |-> 0, issues |-> 0],
      [pullRequests |-> 1234567, issues |-> 999] }

Org == <<"o", "r", "g">>

PR(name, owner, n) ==
    [nameWithOwner |-> name, url |-> "https://github.com/" \o name,
     stargazerCount |-> n, owner |-> owner]

PrPages ==
    { [endCursor |-> "P1",
       nodes |-> << PR("Me/own", <<"M", "e">>, 50), PR("org/a", Org, 150),
                    PR("org/b", Org, 300), PR("org/a", Org, 150) >>],
      [endCursor |-> "P2",
       nodes |-> << PR("org/c", Org, 100), PR("org/d", Org, 99),
                    PR("org/e", Org, 300), PR("me/big", <<"m", "e">>, 5000),
                    PR("org/f", Org, 1200), PR("org/a", Org, 90) >>],
      [endCursor |-> "P3",
       nodes |-> << PR("org/g", Org, 150), PR("org/h", Org, 2300000),
                    PR("org/i", Org, 120), PR("org/j", Org, 400),
                    PR("org/k", Org, 100), PR("org/l", Org, 250) >>],
      [endCursor |-> "P4", nodes |-> <<>>] }

RECURSIVE Sum(_)
Sum(ns) == IF ns = <<>> THEN 0 ELSE Head(ns) + Sum(Tail(ns))

Call(fn, variables, outcome, data) ==
    [fn |-> fn, variables |-> variables, outcome |-> outcome, data |-> data]

\* The calls of the fetch function fn, after one more.
Logged(fn, call) ==
    IF calls # <<>> /\ calls[1].fn = fn THEN Append(calls, call) ELSE <<call>>

CallsOf(fn) == IF calls # <<>> /\ calls[1].fn = fn THEN calls ELSE <<>>

\* A failed call carries no data: one of the answers stands for all.
FirstOf(S) == CHOOSE x \in S : TRUE

NoData == [nodes |-> <<>>, endCursor |-> "null", hasNextPage |-> FALSE]

\* The Stats Updater touches nothing of the Policy Setter.
OnlyUpdater == UNCHANGED <<policyVars, service>>

\* An exception leaves __main__: nothing is bound, nothing is written.
Abort(call) ==
    /\ upc' = "aborted"
    /\ calls' = Logged(call.fn, call)
    /\ fetchFailed' = TRUE
    /\ UNCHANGED <<fetched, stars, commits, pull_requests, issues, notable, total,
                   cursor, year, pages, contributions, seen_repos, readmeVars>>

(***************************************************************************)
(* update_readme_stats.py: __main__ and the fetch functions, one action    *)
(* per graphql call.                                                       *)
(***************************************************************************)
\* One iteration of the loop of fetch_stars (lines 68-75), and its return
\* into line 266.
fetch_stars_same_cursor ==
    /\ OnlyUpdater
    /\ upc = "fetch_stars"
    /\ \E outcome \in Outcomes, page \in service.stars, more \in BOOLEAN :
         LET data == [nodes |-> page.nodes, endCursor |-> page.endCursor,
                      hasNextPage |-> more]
             call == Call("fetch_stars", [cursor |-> cursor], outcome,
                          IF outcome = "ok" THEN data ELSE NoData)
         IN  /\ Len(CallsOf("fetch_stars")) + 1 >= MaxStarPages => ~more
             /\ outcome # "ok" => page = FirstOf(service.stars) /\ ~more
             /\ IF Raises(outcome) THEN Abort(call)
                ELSE /\ calls' = Logged("fetch_stars", call)
                     /\ total' = IF more THEN total + Sum(data.nodes) ELSE 0
                     /\ UNCHANGED cursor
                     /\ stars' = IF more THEN stars ELSE total + Sum(data.nodes)
                     /\ fetched' = IF more THEN fetched ELSE fetched \cup {"stars"}
                     /\ upc' = IF more THEN "fetch_stars" ELSE "fetch_account_year"
                     /\ UNCHANGED <<commits, pull_requests, issues, notable, year,
                                    pages, contributions, seen_repos, readmeVars>>
                     /\ fetchFailed' = (fetchFailed \/ outcome # "ok")

fetch_stars ==
    /\ OnlyUpdater
    /\ upc = "fetch_stars"
    /\ \E outcome \in Outcomes, page \in service.stars, more \in BOOLEAN :
         LET data == [nodes |-> page.nodes, endCursor |-> page.endCursor,
                      hasNextPage |-> more]
             call == Call("fetch_stars", [cursor |-> cursor], outcome,
                          IF outcome = "ok" THEN data ELSE NoData)
         IN  /\ Len(CallsOf("fetch_stars")) + 1 >= MaxStarPages => ~more
             /\ outcome # "ok" => page = FirstOf(service.stars) /\ ~more
             /\ IF Raises(outcome) THEN Abort(call)
                ELSE /\ calls' = Logged("fetch_stars", call)
                     /\ total' = IF more THEN total + Sum(data.nodes) ELSE 0
                     /\ cursor' = IF more THEN data.endCursor ELSE "null"
                     /\ stars' = IF more THEN stars ELSE total + Sum(data.nodes)
                     /\ fetched' = IF more THEN fetched ELSE fetched \cup {"stars"}
                     /\ upc' = IF more THEN "fetch_stars" ELSE "fetch_account_year"
                     /\ UNCHANGED <<commits, pull_requests, issues, notable, year,
                                    pages, contributions, seen_repos, readmeVars>>
                     /\ fetchFailed' = (fetchFailed \/ outcome # "ok")

\* fetch_account_year (lines 80-83), called at line 98; the loop of
\* fetch_commits starts at the year it returns.
fetch_account_year ==
    /\ OnlyUpdater
    /\ upc = "fetch_account_year"
    /\ \E outcome \in Outcomes, created \in service.years :
         LET call == Call("fetch_account_year", [cursor |-> "null"], outcome,
                          IF outcome = "ok" THEN [createdAt |-> created]
                                            ELSE [createdAt |-> 0])
         IN  /\ outcome # "ok" => created = FirstOf(service.years)
             /\ IF Raises(outcome) THEN Abort(call)
                ELSE /\ calls' = Logged("fetch_account_year", call)
                     /\ total' = 0
                     /\ year' = created
                     /\ upc' = "fetch_commits"
                     /\ UNCHANGED <<fetched, stars, commits, pull_requests, issues,
                                    notable, cursor, pages, contributions,
                                    seen_repos, readmeVars>>
                     /\ fetchFailed' = (fetchFailed \/ outcome # "ok")

\* One iteration of the loop of fetch_commits (lines 101-112), and its
\* return into line 270.
fetch_commits ==
    /\ OnlyUpdater
    /\ upc = "fetch_commits"
    /\ \E outcome \in Outcomes, cc \in service.commits :
         LET range == [from |-> ToString(year) \o "-01-01T00:00:00Z",
                       to |-> ToString(year) \o "-12-31T23:59:59Z"]
             call == Call("fetch_commits", range, outcome, cc)
             sum == total + cc.totalCommitContributions
                          + cc.restrictedContributionsCount
             more == year + 1 < Clock.year + 1
         IN  /\ outcome # "ok" => cc = FirstOf(service.commits)
             /\ IF Raises(outcome) THEN Abort(call)
                ELSE /\ calls' = Logged("fetch_commits", call)
                     /\ total' = IF more THEN sum ELSE 0
                     /\ year' = IF more THEN year + 1 ELSE year
                     /\ commits' = IF more THEN commits ELSE sum
                     /\ fetched' = IF more THEN fetched ELSE fetched \cup {"commits"}
                     /\ upc' = IF more THEN "fetch_commits" ELSE "fetch_activity"
                     /\ UNCHANGED <<stars, pull_requests, issues, notable, cursor,
                                    pages, contributions, seen_repos, readmeVars>>
                     /\ fetchFailed' = (fetchFailed \/ outcome # "ok")

\* fetch_activity (lines 117-131) and line 274; then the first lines of
\* fetch_notable_contributions (157-159).
fetch_activity ==
    /\ OnlyUpdater
    /\ upc = "fetch_activity"
    /\ \E outcome \in Outcomes, user \in service.activity :
         LET call == Call("fetch_activity", [cursor |-> "null"], outcome, user)
         IN  /\ outcome # "ok" => user = FirstOf(service.activity)
             /\ IF Raises(outcome) THEN Abort(call)
                ELSE /\ calls' = Logged("fetch_activity", call)
                     /\ pull_requests' = user.pullRequests
                     /\ issues' = user.issues
                     /\ fetched' = fetched \cup {"pull_requests", "issues"}
                     /\ contributions' = <<>>
                     /\ seen_repos' = {}
                     /\ cursor' = "null"
                     /\ pages' = 0
                     /\ upc' = "fetch_notable_contributions"
                     /\ UNCHANGED <<stars, commits, notable, total, year,
                                    readmeVars>>
                     /\ fetchFailed' = (fetchFailed \/ outcome # "ok")

\* One iteration of the loop of fetch_notable_contributions (lines 161-189),
\* and lines 191-192 with the return into line 278.
fetch_notable_contributions ==
    /\ OnlyUpdater
    /\ upc = "fetch_notable_contributions"
    /\ \E outcome \in Outcomes, page \in service.pullRequests, hasNextPage \in BOOLEAN :
         LET data == [nodes |-> page.nodes, endCursor |-> page.endCursor,
                      hasNextPage |-> hasNextPage]
             call == Call("fetch_notable_contributions", [cursor |-> cursor],
                          outcome, IF outcome = "ok" THEN data ELSE NoData)
             acc == Scan(data.nodes, [contributions |-> contributions,
                                      seen_repos |-> seen_repos])
             more == MorePages(pages + 1, hasNextPage)
         IN  /\ outcome # "ok" => page = FirstOf(service.pullRequests) /\ ~hasNextPage
             /\ IF Raises(outcome) THEN Abort(call)
                ELSE /\ calls' = Logged("fetch_notable_contributions", call)
                     /\ pages' = pages + 1
                     /\ contributions' = IF more THEN acc.contributions ELSE <<>>
                     /\ seen_repos' = IF more THEN acc.seen_repos ELSE {}
                     /\ cursor' = IF more THEN data.endCursor ELSE "null"
                     /\ notable' = IF more THEN notable
                                   ELSE TopN(SortDesc(acc.contributions))
                     /\ fetched' = IF more THEN fetched ELSE fetched \cup {"notable"}
                     /\ upc' = IF more THEN "fetch_notable_contributions"
                                       ELSE "update_readme"
                     /\ UNCHANGED <<stars, commits, pull_requests, issues, total,
                                    year, readmeVars>>
                     /\ fetchFailed' = (fetchFailed \/ outcome # "ok")

\* lines 281-288: the three fragments, update_readme, write_text.
WriteReadme ==
    /\ OnlyUpdater
    /\ upc = "update_readme"
    /\ LET stats == [stars |-> stars, commits |-> commits,
                     pull_requests |-> pull_requests, issues |-> issues]
           triple == <<render_stats(stats), render_notable(notable), render_updated>>
           out == update_readme(file, triple[1], triple[2], triple[3])
       IN  /\ patches' = Append(patches, triple)
           /\ before' = file
           /\ raised' = ~out.ok
           /\ file' = IF out.ok THEN out.text ELSE file
           /\ writes' = IF out.ok THEN writes + 1 ELSE writes
           /\ upc' = IF out.ok THEN "done" ELSE "aborted"
    /\ UNCHANGED <<fetched, stars, commits, pull_requests, issues, notable, total,
                   cursor, year, pages, contributions, seen_repos, calls,
                   fetchFailed, file0>>

PolicyIdle ==
    /\ repos = <<>>
    /\ ppc = "idle"
    /\ repositories = <<>>
    /\ forked_repositories = <<>>
    /\ idx = 1
    /\ requests = <<>>
    /\ warnings = <<>>
    /\ run = 1
    /\ runStart = <<>>
    /\ first = <<>>
    /\ completed = FALSE

\* README.md as the run finds it.
MainReadmes ==
    { << "# Hi", NL, STATS_START, NL, "old stats", NL, STATS_END, NL,
         NOTABLE_START, NOTABLE_END, NL, UPDATED_START, "old", UPDATED_END, NL,
         "footer" >>,
      << "# Hi", NL, STATS_START, STATS_END, NL, NOTABLE_START, "dangling", NL,
         UPDATED_START, UPDATED_END >>,
      << "# Hi", NL >> }

\* The answers of the service in the runs of the whole script.
MainService ==
    [stars |-> { p \in StarPages : p.endCursor = "Y1" /\ p.nodes # <<5>> },
     years |-> AccountYears,
     commits |-> { c \in YearCounts : c.totalCommitContributions > 0 },
     activity |-> { a \in ActivityCounts : a.issues > 0 },
     pullRequests |-> { p \in PrPages : p.endCursor \in {"P1", "P3"} }]

FullService ==
    [stars |-> StarPages, years |-> AccountYears, commits |-> YearCounts,
     activity |-> ActivityCounts, pullRequests |-> PrPages]

Fresh ==
    /\ PolicyIdle
    /\ fetched = {}
    /\ stars = 0 /\ commits = 0 /\ pull_requests = 0 /\ issues = 0
    /\ notable = <<>>
    /\ total = 0 /\ cursor = "null" /\ year = 0 /\ pages = 0
    /\ contributions = <<>> /\ seen_repos = {}
    /\ calls = <<>>
    /\ fetchFailed = FALSE
    /\ file0 = file
    /\ before = file
    /\ writes = 0
    /\ patches = <<>>
    /\ raised = FALSE

InitUpdater ==
    /\ upc = "fetch_stars"
    /\ service = MainService
    /\ file \in MainReadmes
    /\ Fresh

\* fetch_stars alone, against every answer of the service.
InitStars ==
    /\ upc = "fetch_stars"
    /\ service = FullService
    /\ file = <<>>
    /\ Fresh

\* fetch_notable_contributions alone, against every answer of the service.
InitNotable ==
    /\ upc = "fetch_notable_contributions"
    /\ service = FullService
    /\ file = <<>>
    /\ Fresh

NextUpdater ==
    \/ fetch_stars
    \/ fetch_account_year
    \/ fetch_commits
    \/ fetch_activity
    \/ fetch_notable_contributions
    \/ WriteReadme

SpecUpdater == InitUpdater /\ [][NextUpdater]_vars

SpecStars == InitStars /\ [][fetch_stars]_vars

SpecNotable == InitNotable /\ [][fetch_notable_contributions]_vars

(***************************************************************************)
(* Properties of the Stats Updater.                                        *)
(***************************************************************************)
Returned(fn) ==
    /\ calls # <<>>
    /\ calls[1].fn = fn
    /\ upc \notin {fn, "aborted"}

RECURSIVE AllNodes(_)
\* The nodes of the pages the calls of log received, in the order received.
AllNodes(log) ==
    IF log = <<>> THEN <<>> ELSE Head(log).data.nodes \o AllNodes(Tail(log))

\* C1: fetch_stars asks for the first page with cursor null and for each
\* later page with the endCursor of the page before, asks for no page after
\* one whose hasNextPage is false, returns on that page, and returns the sum
\* of stargazerCount over the nodes of all the pages it received.
C1_FetchStars ==
    LET cs == CallsOf("fetch_stars")
    IN  /\ \A i \in DOMAIN cs :
              /\ cs[i].variables.cursor
                    = IF i = 1 THEN "null" ELSE cs[i - 1].data.endCursor
              /\ i < Len(cs) => cs[i].outcome = "ok" /\ cs[i].data.hasNextPage
        /\ (cs # <<>> /\ cs[Len(cs)].outcome = "ok")
              => (Returned("fetch_stars") <=> ~cs[Len(cs)].data.hasNextPage)
        /\ Returned("fetch_stars") => stars = Sum(AllNodes(cs))

\* Pages [10, 20], [5], [] give 35 with exactly 3 requests.
C1_Witness ==
    /\ Returned("fetch_stars")
    /\ Len(calls) = 3
    /\ calls[1].data.nodes = <<10, 20>>
    /\ calls[2].data.nodes = <<5>>
    /\ calls[3].data.nodes = <<>>
    /\ stars = 35

\* The reference result of the notable contributions over the scanned PRs.
SelfLogins == { <<"M", "e">>, <<"m", "e">>, <<"M", "E">>, <<"m", "E">> }

Qualifies(repo) == repo.owner \notin SelfLogins /\ ~(repo.stargazerCount < 100)

\* The positions that survive: a qualifying repository at its first occurrence.
Kept(scan) ==
    { i \in DOMAIN scan :
        /\ Qualifies(scan[i])
        /\ \A j \in 1..(i - 1) :
              Qualifies(scan[j]) => scan[j].nameWithOwner # scan[i].nameWithOwner }

\* The place of position i once sorted by stars descending, scan order
\* among equals.
Rank(scan, i) ==
    1 + Cardinality({ j \in Kept(scan) :
            \/ scan[j].stargazerCount > scan[i].stargazerCount
            \/ scan[j].stargazerCount = scan[i].stargazerCount /\ j < i })

Reference(scan) ==
    LET n == IF Cardinality(Kept(scan)) < 10 THEN Cardinality(Kept(scan)) ELSE 10
    IN  [k \in 1..n |->
          LET i == CHOOSE i \in Kept(scan) : Rank(scan, i) = k
          IN  [repo |-> scan[i].nameWithOwner, repo_url |-> scan[i].url,
               stars |-> scan[i].stargazerCount]]

\* C2: the list fetch_notable_contributions returns is the reference result
\* over the PRs of the pages it scanned: no self-owned repository, none
\* below 100 stars, no repository name twice, stars non-increasing, at most
\* 10 entries.
C2_Notable ==
    Returned("fetch_notable_contributions") =>
      LET scan == AllNodes(calls)
      IN  /\ notable = Reference(scan)
          /\ \A k \in DOMAIN notable :
                /\ notable[k].stars >= 100
                /\ \A i \in DOMAIN scan :
                      scan[i].nameWithOwner = notable[k].repo
                         => scan[i].owner \notin SelfLogins
                /\ \A m \in DOMAIN notable : m # k => notable[m].repo # notable[k].repo
                /\ k > 1 => notable[k - 1].stars >= notable[k].stars
          /\ Len(notable) <= 10

C2_Witness ==
    /\ Returned("fetch_notable_contributions")
    /\ Cardinality(Kept(AllNodes(calls))) > 10
    /\ Len(notable) = 10
    /\ \E i \in DOMAIN calls : calls[i].data.nodes = <<>>

\* C10: fetch_notable_contributions issues at most NOTABLE_MAX_PAGES = 5
\* page requests, has returned after the fifth whatever it reports, and
\* issues no request after a page that reports hasNextPage = false.
C10_NotablePages ==
    LET cs == CallsOf("fetch_notable_contributions")
    IN  /\ Len(cs) <= 5
        /\ \A i \in DOMAIN cs :
              i < Len(cs) => cs[i].outcome = "ok" /\ cs[i].data.hasNextPage
        /\ Len(cs) = 5 => upc # "fetch_notable_contributions"
        /\ (cs # <<>> /\ cs[Len(cs)].outcome = "ok" /\ ~cs[Len(cs)].data.hasNextPage)
              => upc = "update_readme"

C10_Witness ==
    /\ Len(calls) = 5
    /\ \A i \in DOMAIN calls :
          calls[i].fn = "fetch_notable_contributions" /\ calls[i].data.hasNextPage
    /\ upc = "update_readme"

\* C7: README.md is written at most once, only when the four fetches have
\* bound their results and the three fragments are computed; a failed
\* graphql call (HTTP status or "errors") leaves the file as it was.
C7_WriteOnce ==
    /\ writes <= 1
    /\ writes = 1 =>
          /\ upc = "done"
          /\ fetched = {"stars", "commits", "pull_requests", "issues", "notable"}
          /\ Len(patches) = 1
          /\ ~fetchFailed
    /\ writes = 0 => file = file0
    /\ fetchFailed => writes = 0 /\ file = file0 /\ upc = "aborted"

C7_Witness ==
    /\ upc = "done"
    /\ writes = 1
    /\ file # file0

C7_WitnessFailure ==
    /\ upc = "aborted"
    /\ fetchFailed
    /\ calls[Len(calls)].outcome = "errors"
    /\ "pull_requests" \in fetched
    /\ file = file0

(***************************************************************************)
(* update_readme as a function: any README.md, any fragments, called       *)
(* once and then once more.                                                *)
(***************************************************************************)
MaxReadmeLen == 4

ReadmeTokens == Markers \cup { "x" }

Readmes == SeqsUpTo(ReadmeTokens, MaxReadmeLen)

\* Fragments of lines, of template escapes, of a bad escape, of markers.
FragmentTriples ==
    { << <<"a">>, <<"b">>, <<"c">> >>,
      << <<"d">>, <<>>, <<"e", NL, "f">> >>,
      << <<"a", BS, "n">>, <<"b">>, <<BS, BS>> >>,
      << <<"a">>, <<BS, "x">>, <<"c">> >>,
      << <<NOTABLE_END>>, <<"b">>, <<"c">> >>,
      << <<"a", STATS_END>>, <<UPDATED_START>>, <<"c">> >> }

\* update_readme(path, stats_md, notable_md, updated_md), lines 235-258.
Patch ==
    /\ UNCHANGED <<policyVars, updaterVars>>
    /\ Len(patches) < 2
    /\ ~raised
    /\ \E triple \in FragmentTriples :
         LET out == update_readme(file, triple[1], triple[2], triple[3])
         IN  /\ patches' = Append(patches, triple)
             /\ before' = file
             /\ raised' = ~out.ok
             /\ file' = IF out.ok THEN out.text ELSE file
             /\ writes' = IF out.ok THEN writes + 1 ELSE writes
    /\ UNCHANGED file0

InitReadme ==
    /\ upc = "idle"
    /\ service = [stars |-> {}, years |-> {}, commits |-> {}, activity |-> {},
                  pullRequests |-> {}]
    /\ file \in Readmes
    /\ Fresh

SpecReadme == InitReadme /\ [][Patch]_vars

(***************************************************************************)
(* Properties of update_readme.                                            *)
(***************************************************************************)
\* [a, b] is a span the pattern of region matches in text: a START, the
\* first END after it, and no START before a that is still waiting for it.
IsSpan(text, region, a, b) ==
    /\ a < b
    /\ text[a] = region.start
    /\ text[b] = region.end
    /\ \A k \in (a + 1)..(b - 1) : text[k] # region.end
    /\ \A c \in 1..(a - 1) :
          text[c] = region.start => \E k \in (c + 1)..(a - 1) : text[k] = region.end

HasPair(text, region) ==
    \E a, b \in DOMAIN text : IsSpan(text, region, a, b)

Covered(text) ==
    { i \in DOMAIN text :
        \E r \in 1..3 : \E a, b \in DOMAIN text :
            IsSpan(text, Regions[r], a, b) /\ a <= i /\ i <= b }

RECURSIVE OutsideFrom(_, _)
\* The runs of text outside every marker pair, from position i on: one run
\* before each pair region, and one after the last.
OutsideFrom(text, i) ==
    LET inside == { k \in Covered(text) : k >= i }
    IN  IF inside = {} THEN << SubSeq(text, i, Len(text)) >>
        ELSE LET a == CHOOSE k \in inside : \A m \in inside : k <= m
                 after == { k \in i..(Len(text) + 1) :
                              k > a /\ k \notin Covered(text) }
                 z == CHOOSE k \in after : \A m \in after : k <= m
             IN  << SubSeq(text, i, a - 1) >> \o OutsideFrom(text, z)

Outside(text) == OutsideFrom(text, 1)

IsPrefix(p, t) == Len(p) <= Len(t) /\ SubSeq(t, 1, Len(p)) = p
IsSuffix(p, t) == Len(p) <= Len(t) /\ SubSeq(t, Len(t) - Len(p) + 1, Len(t)) = p

Occurs(p, t) ==
    \E i \in 0..(Len(t) - Len(p)) : SubSeq(t, i + 1, i + Len(p)) = p

RECURSIVE KeepsTail(_, _)
KeepsTail(runs, t) ==
    IF Len(runs) = 1 THEN IsSuffix(runs[1], t)
    ELSE \E i \in 0..(Len(t) - Len(runs[1])) :
            /\ SubSeq(t, i + 1, i + Len(runs[1])) = runs[1]
            /\ KeepsTail(Tail(runs), SubSeq(t, i + Len(runs[1]) + 1, Len(t)))

\* t holds the runs in their order, the first at its start and the last at
\* its end, with something in place of each pair region between them.
Keeps(runs, t) ==
    IF Len(runs) = 1 THEN t = runs[1]
    ELSE /\ IsPrefix(runs[1], t)
         /\ KeepsTail(Tail(runs), SubSeq(t, Len(runs[1]) + 1, Len(t)))

Last(seq) == seq[Len(seq)]

CleanFragment(md) == \A i \in DOMAIN md : md[i] \notin Markers \cup {BS}

CleanTriple(t) == \A r \in 1..3 : CleanFragment(t[r])

\* The text between the markers of every pair of region in text is content.
Holds(text, region, content) ==
    \A a, b \in DOMAIN text :
        IsSpan(text, region, a, b) => SubSeq(text, a + 1, b - 1) = content

\* The pair of region in text stands clear of the pairs of the other regions.
Apart(text, r) ==
    \A a, b \in DOMAIN text :
        IsSpan(text, Regions[r], a, b) =>
            \A q \in 1..3 : \A c, d \in DOMAIN text :
                (q # r /\ IsSpan(text, Regions[q], c, d)) => (d < a \/ b < c)

\* C3: whatever the README and the fragments, update_readme raises nothing
\* and the text outside the marker pairs is the same after the call; when
\* the pair of a region is absent, the regions whose pair is there still
\* get their fragment.
C3_OutsideUnchanged ==
    patches # <<>> =>
      /\ ~raised
      /\ Keeps(Outside(before), file)
      /\ \A r \in 1..3 :
            (HasPair(before, Regions[r]) /\ Apart(before, r)
                /\ \E q \in 1..3 : ~HasPair(before, Regions[q]))
            => Occurs(Wrapped(Regions[r], Last(patches)[r]), file)

\* What holds of C3 for fragments without marker comments and backslashes.
C3_CleanFragments ==
    (patches # <<>> /\ CleanTriple(Last(patches))) => C3_OutsideUnchanged

C3_Witness ==
    /\ Len(patches) = 1
    /\ CleanTriple(Last(patches))
    /\ ~HasPair(before, Regions[2])
    /\ HasPair(before, Regions[1])
    /\ Outside(before) # << <<>>, <<>> >>
    /\ file # before

\* C4: after a patch with fragments A and a patch with other fragments B,
\* between the markers of each region there is B alone, and the file is the
\* one a single patch with B gives: nothing of A is left.
C4_Replaces ==
    Len(patches) = 2 =>
      /\ ~raised
      /\ \A r \in 1..3 :
            patches[1][r] # patches[2][r] =>
              Holds(file, Regions[r], <<NL>> \o patches[2][r] \o <<NL>>)
      /\ file = update_readme(file0, patches[2][1], patches[2][2], patches[2][3]).text

\* What holds of C4 for fragments without marker comments and backslashes.
C4_CleanFragments ==
    (Len(patches) = 2 /\ CleanTriple(patches[1]) /\ CleanTriple(patches[2]))
       => C4_Replaces

C4_Witness ==
    /\ Len(patches) = 2
    /\ CleanTriple(patches[1]) /\ CleanTriple(patches[2])
    /\ patches[1] # patches[2]
    /\ \E r \in 1..3 : HasPair(file, Regions[r])
    /\ \E i \in DOMAIN file : file[i] = "x"

====
